---- MODULE Spec2Model ----
(***************************************************************************)
(* State-machine model of the PyOTP FastAPI application (src/main.py,      *)
(* src/auth.py, src/database.py): the user table, the signed tokens the    *)
(* server has issued, the clock, and one action per request handler.       *)
(*                                                                         *)
(* Time is counted in TOTP steps of 30 seconds and the clock is observed   *)
(* at step boundaries, so a 15 minute lifetime is 30 steps.                *)
(***************************************************************************)
EXTENDS Integers, FiniteSets, Sequences, TLC

VARIABLES users, issued, now, clockMoves, req, resp, inflight

vars == <<users, issued, now, clockMoves, req, resp, inflight>>

(***************************************************************************)
(* Bounds of the model.                                                    *)
(***************************************************************************)
\* The clock is advanced at most this many times in a behaviour.
MaxClockMoves == 2
\* At most this many distinct tokens are issued in a behaviour.
MaxTokens == 2
\* A submitted code is at most this many steps old.
MaxCodeAge == 2

Emails == {"a@x.com", "b@x.com"}
Passwords == {"pw1", "pw2"}
\* The (name, password) pairs a signup form is filled with.
SignupForms == {<<"A", "pw1">>, <<"B", "pw2">>}
\* Base32 secrets: what generate_mfa_secret can return and what a client can post.
Secrets == {"S1", "S2"}
Workers == {1, 2}

(***************************************************************************)
(* Program constants.                                                      *)
(***************************************************************************)
SECRET_KEY == "your-secret-key-change-in-production"
ACCESS_TOKEN_EXPIRE_MINUTES == 30
\* timedelta(minutes=15), the lifetime create_access_token falls back to.
DefaultExpireMinutes == 15
\* pyotp.TOTP(secret) is built with the library's interval of 30 seconds.
TotpInterval == 30
StepsPerMinute == 60 \div TotpInterval
Minutes(m) == m * StepsPerMinute

\* SQL NULL in users.mfa_secret.
Null == "<NULL>"
\* No expires_delta argument (Python None).
NoDelta == -1

(***************************************************************************)
(* Password hashing (passlib bcrypt): the hash names its scheme and        *)
(* verifies exactly the password it was made from.                         *)
(***************************************************************************)
get_password_hash(password) == <<"bcrypt", password>>

verify_password(plain_password, hashed_password) ==
    /\ hashed_password[1] = "bcrypt"
    /\ hashed_password[2] = plain_password

(***************************************************************************)
(* Tokens.  A token is its claim set plus the key it was signed with.      *)
(***************************************************************************)
NoToken == [sub |-> "", temp |-> FALSE, exp |-> 0, key |-> "absent"]
\* A token a client made up: claims of its choice, not signed with SECRET_KEY.
Forged == [sub |-> "a@x.com", temp |-> FALSE, exp |-> 1000, key |-> "guess"]

\* data is <<sub, temp>>; expires_delta is a number of steps or NoDelta.
\* `if expires_delta:` is false for None and for a zero timedelta alike.
create_access_token(data, expires_delta) ==
    LET expire == IF expires_delta # NoDelta /\ expires_delta # 0
                  THEN now + expires_delta
                  ELSE now + Minutes(DefaultExpireMinutes)
    IN  [sub |-> data[1], temp |-> data[2], exp |-> expire, key |-> SECRET_KEY]

\* Faulty variant: the lifetime is taken off the expiry once more, so a token
\* stops being accepted as soon as the clock moves on from its issue.
jwt_decode_ok_early(token) ==
    /\ token.key = SECRET_KEY
    /\ ~(token.exp < now + Minutes(DefaultExpireMinutes))

\* jose.jwt.decode: the signature must verify, and the token is expired when
\* exp < now (a token is still accepted in the second its exp names).
jwt_decode_ok(token) ==
    /\ token.key = SECRET_KEY
    /\ ~(token.exp < now)

\* Returns the subject, or "" for None.
verify_token(token) ==
    IF jwt_decode_ok(token)
    THEN token.sub
    ELSE ""

(***************************************************************************)
(* TOTP.  The code of a secret at a time step; pyotp's verify is called    *)
(* with its default valid_window of 0, so only the current step matches.   *)
(***************************************************************************)
TotpAt(secret, step) == <<secret, step>>
BadCode == <<"000000", 0>>

\* Faulty variant: valid_window=1, the steps next to the current one match too.
verify_mfa_code_window1(secret, code) ==
    \E step \in {now - 1, now, now + 1} : code = TotpAt(secret, step)

\* Faulty variant: the time step is ignored, any code of the secret matches.
verify_mfa_code_any_step(secret, code) == code # BadCode /\ code[1] = secret

verify_mfa_code(secret, code) == code = TotpAt(secret, now)

\* The codes a client can submit: a secret's code of this step or of one of the
\* MaxCodeAge steps before it (a code noted down earlier), or junk.
CodeSteps == {s \in (now - MaxCodeAge)..now : s >= 0}
CodesOf(secrets) == {TotpAt(s, c) : s \in secrets, c \in CodeSteps} \cup {BadCode}
Codes == CodesOf(Secrets)

(***************************************************************************)
(* The users table.                                                        *)
(***************************************************************************)
NoUser == [id |-> 0, email |-> "", name |-> "", hashed_password |-> <<"", "">>,
           mfa_secret |-> Null, mfa_enabled |-> FALSE, created_at |-> 0]

\* User(email=..., name=..., hashed_password=...) with the column defaults.
NewUser(table, email, name, hashed_password) ==
    [id |-> Cardinality(table) + 1, email |-> email, name |-> name,
     hashed_password |-> hashed_password,
     mfa_secret |-> Null, mfa_enabled |-> FALSE, created_at |-> now]

Matching(table, email) == {u \in table : u.email = email}

\* db.query(User).filter(User.email == email).first()
FindByEmail(table, email) ==
    IF Matching(table, email) = {}
    THEN NoUser
    ELSE CHOOSE u \in Matching(table, email) :
            \A v \in Matching(table, email) : u.id <= v.id

(***************************************************************************)
(* Requests and responses.                                                 *)
(***************************************************************************)
Request(op, email, password, name, cookie, token, secret, code) ==
    [op |-> op, email |-> email, password |-> password, name |-> name,
     cookie |-> cookie, token |-> token, secret |-> secret, code |-> code,
     expires_delta |-> NoDelta, at |-> now]

NoRequest == [op |-> "none", email |-> "", password |-> "", name |-> "",
              cookie |-> NoToken, token |-> NoToken, secret |-> Null,
              code |-> BadCode, expires_delta |-> NoDelta, at |-> 0]

\* status, detail (error detail, redirect target or template), the cookie set,
\* the token put in the redirect URL, the secret shown, and the user rendered.
Response(status, detail, set_cookie, token, secret, user) ==
    [status |-> status, detail |-> detail, set_cookie |-> set_cookie,
     token |-> token, secret |-> secret, user |-> user]

NoResponse == Response(0, "", NoToken, NoToken, Null, "")

HTTPException(status, detail) == Response(status, detail, NoToken, NoToken, Null, "")
RedirectResponse(url) == Response(303, url, NoToken, NoToken, Null, "")
TemplateResponse(name, user) == Response(200, name, NoToken, NoToken, Null, user)

\* The tokens a client can present: any the server issued, a forgery, or none.
Presentable == issued \cup {Forged, NoToken}

CanIssue(token) == token \in issued \/ Cardinality(issued) < MaxTokens

Idle == [op |-> "idle", request |-> NoRequest, user |-> NoUser]

Init ==
    /\ users = {}
    /\ issued = {}
    /\ now = 0
    /\ clockMoves = 0
    /\ req = NoRequest
    /\ resp = NoResponse
    /\ inflight = [w \in Workers |-> Idle]

(***************************************************************************)
(* Store writes.                                                           *)
(***************************************************************************)
\* db.add(user); db.commit(): the INSERT fails on the unique index of
\* users.email (IntegrityError) and then leaves the table as it was.
IntegrityError(table, email) == Matching(table, email) # {}

commit_insert(table, email, name, hashed_password) ==
    IF IntegrityError(table, email)
    THEN table
    ELSE table \cup {NewUser(table, email, name, hashed_password)}

\* Faulty variant: the UPDATE has no WHERE clause and rewrites every row.
commit_update_every_row(table, loaded, mfa_secret, mfa_enabled) ==
    {[u EXCEPT !.mfa_secret = mfa_secret, !.mfa_enabled = mfa_enabled] : u \in table}

\* db.commit() after attribute assignments on a loaded row: the unit of work
\* emits UPDATE users SET <the columns whose value differs from the loaded
\* one> WHERE id = <the loaded id>.
commit_update(table, loaded, mfa_secret, mfa_enabled) ==
    {IF u.id = loaded.id
     THEN [u EXCEPT !.mfa_secret = IF mfa_secret # loaded.mfa_secret
                                   THEN mfa_secret ELSE @,
                    !.mfa_enabled = IF mfa_enabled # loaded.mfa_enabled
                                    THEN mfa_enabled ELSE @]
     ELSE u : u \in table}

(***************************************************************************)
(* Handlers: what each returns, as a function of the table and the form.   *)
(***************************************************************************)
signup_taken == HTTPException(400, "Email already registered")
signup_done == RedirectResponse("/login")
server_error == HTTPException(500, "Internal Server Error")

login_failed == HTTPException(401, "Incorrect email or password")

login_rejects(user, password) ==
    user = NoUser \/ ~verify_password(password, user.hashed_password)

\* Faulty variant: the MFA branch is skipped, every password login gets a session.
login_response_skips_mfa(table, email, password) ==
    LET user == FindByEmail(table, email)
    IN  IF login_rejects(user, password)
        THEN login_failed
        ELSE [RedirectResponse("/dashboard") EXCEPT
                 !.set_cookie = create_access_token(<<user.email, FALSE>>, NoDelta)]

\* Faulty variant: an unknown email is answered differently from a wrong password.
login_response_enumerates(table, email, password) ==
    LET user == FindByEmail(table, email)
    IN  IF user = NoUser
        THEN HTTPException(404, "User not found")
        ELSE IF ~verify_password(password, user.hashed_password)
        THEN login_failed
        ELSE IF user.mfa_enabled
        THEN [RedirectResponse("/mfa-verify") EXCEPT
                 !.token = create_access_token(<<user.email, TRUE>>, NoDelta)]
        ELSE [RedirectResponse("/dashboard") EXCEPT
                 !.set_cookie = create_access_token(<<user.email, FALSE>>, NoDelta)]

login_response(table, email, password) ==
    LET user == FindByEmail(table, email)
    IN  IF login_rejects(user, password)
        THEN login_failed
        ELSE IF user.mfa_enabled
        THEN [RedirectResponse("/mfa-verify") EXCEPT
                 !.token = create_access_token(<<user.email, TRUE>>, NoDelta)]
        ELSE [RedirectResponse("/dashboard") EXCEPT
                 !.set_cookie = create_access_token(<<user.email, FALSE>>, NoDelta)]

\* Faulty variant: the handler does not look at mfa_enabled.
mfa_verify_response_unchecked(table, code, token) ==
    LET email == verify_token(token)
        user == FindByEmail(table, email)
    IN  IF email = ""
        THEN HTTPException(401, "Invalid token")
        ELSE IF user = NoUser
        THEN HTTPException(400, "MFA not enabled for this user")
        ELSE IF ~verify_mfa_code(user.mfa_secret, code)
        THEN HTTPException(401, "Invalid MFA code")
        ELSE [RedirectResponse("/dashboard") EXCEPT
                 !.set_cookie = create_access_token(<<user.email, FALSE>>, NoDelta)]

mfa_verify_response(table, code, token) ==
    LET email == verify_token(token)
        user == FindByEmail(table, email)
    IN  IF email = ""
        THEN HTTPException(401, "Invalid token")
        ELSE IF user = NoUser \/ ~user.mfa_enabled
        THEN HTTPException(400, "MFA not enabled for this user")
        ELSE IF ~verify_mfa_code(user.mfa_secret, code)
        THEN HTTPException(401, "Invalid MFA code")
        ELSE [RedirectResponse("/dashboard") EXCEPT
                 !.set_cookie = create_access_token(<<user.email, FALSE>>, NoDelta)]

\* The preamble of every cookie-authenticated handler: the user the
\* access_token cookie names, or NoUser when the handler redirects to /login.
current_user(table, cookie) ==
    IF cookie = NoToken
    THEN NoUser
    ELSE IF verify_token(cookie) = ""
    THEN NoUser
    ELSE FindByEmail(table, verify_token(cookie))

to_login == RedirectResponse("/login")

dashboard_response(table, cookie) ==
    LET user == current_user(table, cookie)
    IN  IF user = NoUser
        THEN to_login
        ELSE TemplateResponse("dashboard.html", user.email)

setup_mfa_page_response(table, cookie, secret) ==
    LET user == current_user(table, cookie)
    IN  IF user = NoUser
        THEN to_login
        ELSE IF user.mfa_enabled
        THEN TemplateResponse("mfa_already_setup.html", user.email)
        ELSE [TemplateResponse("setup_mfa.html", user.email) EXCEPT
                 !.secret = secret]

\* Faulty variant: the submitted code is not verified.
enable_mfa_response_unverified(table, cookie, secret, code) ==
    LET user == current_user(table, cookie)
    IN  IF user = NoUser
        THEN to_login
        ELSE RedirectResponse("/dashboard?mfa_enabled=true")

enable_mfa_response(table, cookie, secret, code) ==
    LET user == current_user(table, cookie)
    IN  IF user = NoUser
        THEN to_login
        ELSE IF ~verify_mfa_code(secret, code)
        THEN HTTPException(401, "Invalid MFA code")
        ELSE RedirectResponse("/dashboard?mfa_enabled=true")

disable_mfa_page_response(table, cookie) ==
    LET user == current_user(table, cookie)
    IN  IF user = NoUser
        THEN to_login
        ELSE IF ~user.mfa_enabled
        THEN RedirectResponse("/dashboard")
        ELSE TemplateResponse("disable_mfa.html", user.email)

\* Faulty variant: the submitted code is not verified.
disable_mfa_response_unverified(table, cookie, code) ==
    LET user == current_user(table, cookie)
    IN  IF user = NoUser
        THEN to_login
        ELSE IF ~user.mfa_enabled
        THEN RedirectResponse("/dashboard")
        ELSE RedirectResponse("/dashboard?mfa_disabled=true")

disable_mfa_response(table, cookie, code) ==
    LET user == current_user(table, cookie)
    IN  IF user = NoUser
        THEN to_login
        ELSE IF ~user.mfa_enabled
        THEN RedirectResponse("/dashboard")
        ELSE IF ~verify_mfa_code(user.mfa_secret, code)
        THEN HTTPException(401, "Invalid MFA code")
        ELSE RedirectResponse("/dashboard?mfa_disabled=true")

DeletedCookie == [sub |-> "", temp |-> FALSE, exp |-> 0, key |-> "deleted"]
logout_response == [RedirectResponse("/") EXCEPT !.set_cookie = DeletedCookie]

\* The tokens a response hands to the client.
TokensOf(r) == {r.set_cookie, r.token} \ {NoToken, DeletedCookie}

(***************************************************************************)
(* Actions: one per request handler, each run to completion (the handlers  *)
(* are coroutines without an await, so one process runs them one by one).  *)
(***************************************************************************)
\* Faulty variant: the existence check is left out.
existing_user_unchecked(table, email) == FALSE

\* existing_user, the row the handler's first query finds.
existing_user(table, email) == FindByEmail(table, email) # NoUser

Signup(email, name, password) ==
    /\ req' = Request("signup", email, password, name, NoToken, NoToken, Null, BadCode)
    /\ IF existing_user(users, email)
       THEN /\ resp' = signup_taken
            /\ users' = users
       ELSE /\ users' = commit_insert(users, email, name, get_password_hash(password))
            /\ resp' = IF IntegrityError(users, email)
                       THEN server_error
                       ELSE signup_done
    /\ UNCHANGED <<issued, now, clockMoves, inflight>>

Login(email, password) ==
    LET r == login_response(users, email, password)
    IN  /\ \A t \in TokensOf(r) : CanIssue(t)
        /\ req' = Request("login", email, password, "", NoToken, NoToken, Null, BadCode)
        /\ resp' = r
        /\ issued' = issued \cup TokensOf(r)
        /\ UNCHANGED <<users, now, clockMoves, inflight>>

MfaVerify(code, token) ==
    LET r == mfa_verify_response(users, code, token)
    IN  /\ \A t \in TokensOf(r) : CanIssue(t)
        /\ req' = Request("mfa_verify", "", "", "", NoToken, token, Null, code)
        /\ resp' = r
        /\ issued' = issued \cup TokensOf(r)
        /\ UNCHANGED <<users, now, clockMoves, inflight>>

Dashboard(cookie) ==
    /\ req' = Request("dashboard", "", "", "", cookie, NoToken, Null, BadCode)
    /\ resp' = dashboard_response(users, cookie)
    /\ UNCHANGED <<users, issued, now, clockMoves, inflight>>

\* Faulty variant: the generated secret is stored on the record right away.
SetupMfaPage_persists(cookie, secret) ==
    LET r == setup_mfa_page_response(users, cookie, secret)
        user == current_user(users, cookie)
    IN  /\ req' = Request("setup_mfa_page", "", "", "", cookie, NoToken, Null, BadCode)
        /\ resp' = r
        /\ users' = IF r.secret # Null
                    THEN commit_update(users, user, secret, FALSE)
                    ELSE users
        /\ UNCHANGED <<issued, now, clockMoves, inflight>>

SetupMfaPage(cookie, secret) ==
    /\ req' = Request("setup_mfa_page", "", "", "", cookie, NoToken, Null, BadCode)
    /\ resp' = setup_mfa_page_response(users, cookie, secret)
    /\ UNCHANGED <<users, issued, now, clockMoves, inflight>>

EnableMfa(cookie, secret, code) ==
    LET r == enable_mfa_response(users, cookie, secret, code)
        user == current_user(users, cookie)
    IN  /\ req' = Request("enable_mfa", "", "", "", cookie, NoToken, secret, code)
        /\ resp' = r
        /\ users' = IF r.detail = "/dashboard?mfa_enabled=true"
                    THEN commit_update(users, user, secret, TRUE)
                    ELSE users
        /\ UNCHANGED <<issued, now, clockMoves, inflight>>

DisableMfaPage(cookie) ==
    /\ req' = Request("disable_mfa_page", "", "", "", cookie, NoToken, Null, BadCode)
    /\ resp' = disable_mfa_page_response(users, cookie)
    /\ UNCHANGED <<users, issued, now, clockMoves, inflight>>

DisableMfa(cookie, code) ==
    LET r == disable_mfa_response(users, cookie, code)
        user == current_user(users, cookie)
    IN  /\ req' = Request("disable_mfa", "", "", "", cookie, NoToken, Null, code)
        /\ resp' = r
        /\ users' = IF r.detail = "/dashboard?mfa_disabled=true"
                    THEN commit_update(users, user, Null, FALSE)
                    ELSE users
        /\ UNCHANGED <<issued, now, clockMoves, inflight>>

Logout ==
    /\ req' = Request("logout", "", "", "", NoToken, NoToken, Null, BadCode)
    /\ resp' = logout_response
    /\ UNCHANGED <<users, issued, now, clockMoves, inflight>>

\* The clock moves on by one step or by the default token lifetime.
ClockSteps == {1, Minutes(DefaultExpireMinutes)}

Advance(d) ==
    /\ clockMoves < MaxClockMoves
    /\ now' = now + d
    /\ clockMoves' = clockMoves + 1
    /\ UNCHANGED <<users, issued, req, resp, inflight>>

\* Every handler, for requests about the given accounts and secrets.
Handlers(emails, forms, secrets) ==
    \/ \E e \in emails, f \in forms : Signup(e, f[1], f[2])
    \/ \E e \in emails, p \in Passwords : Login(e, p)
    \/ \E c \in CodesOf(secrets), t \in issued \cup {Forged} : MfaVerify(c, t)
    \/ \E t \in Presentable : Dashboard(t)
    \/ \E t \in Presentable, s \in secrets : SetupMfaPage(t, s)
    \/ \E t \in Presentable, s \in secrets, c \in CodesOf(secrets) : EnableMfa(t, s, c)
    \/ \E t \in Presentable : DisableMfaPage(t)
    \/ \E t \in Presentable, c \in CodesOf(secrets) : DisableMfa(t, c)
    \/ Logout

\* The handlers at one instant: any interleaving of whole requests.
Next == Handlers(Emails, SignupForms, Secrets)

Spec == Init /\ [][Next]_vars

\* The handlers for one account and one secret, with the clock moving between
\* requests.
ClockEmails == {"a@x.com"}
ClockForms == {<<"A", "pw1">>}
ClockSecrets == {"S1"}

NextClock ==
    \/ Handlers(ClockEmails, ClockForms, ClockSecrets)
    \/ \E d \in ClockSteps : Advance(d)

SpecClock == Init /\ [][NextClock]_vars

(***************************************************************************)
(* The same handlers in a deployment with several worker processes on the  *)
(* one database file: a handler's reads and its commit are separate steps, *)
(* and another worker's steps may fall between them.  A worker runs one    *)
(* request at a time.                                                      *)
(***************************************************************************)
Begin(w, op, request, user) ==
    inflight' = [inflight EXCEPT ![w] = [op |-> op, request |-> request, user |-> user]]

Finish(w) == inflight' = [inflight EXCEPT ![w] = Idle]

\* main.py 43-48: the existence check, and the early 400.
SignupRead(w, email, name, password) ==
    LET request == Request("signup", email, password, name, NoToken, NoToken, Null, BadCode)
    IN  /\ inflight[w] = Idle
        /\ IF existing_user(users, email)
           THEN /\ req' = request
                /\ resp' = signup_taken
                /\ UNCHANGED inflight
           ELSE /\ Begin(w, "signup", request, NoUser)
                /\ UNCHANGED <<req, resp>>
        /\ UNCHANGED <<users, issued, now, clockMoves>>

\* main.py 51-61: the INSERT and its commit; an IntegrityError is not caught
\* by the handler and reaches the client as a 500.
SignupCommit(w) ==
    LET request == inflight[w].request
    IN  /\ inflight[w].op = "signup"
        /\ req' = request
        /\ users' = commit_insert(users, request.email, request.name,
                                  get_password_hash(request.password))
        /\ resp' = IF IntegrityError(users, request.email)
                   THEN server_error
                   ELSE signup_done
        /\ Finish(w)
        /\ UNCHANGED <<issued, now, clockMoves>>

\* main.py 188-205: the cookie, the row and the code are read and checked.
EnableMfaRead(w, cookie, secret, code) ==
    LET request == Request("enable_mfa", "", "", "", cookie, NoToken, secret, code)
        r == enable_mfa_response(users, cookie, secret, code)
    IN  /\ inflight[w] = Idle
        /\ IF r.detail = "/dashboard?mfa_enabled=true"
           THEN /\ Begin(w, "enable_mfa", request, current_user(users, cookie))
                /\ UNCHANGED <<req, resp>>
           ELSE /\ req' = request
                /\ resp' = r
                /\ UNCHANGED inflight
        /\ UNCHANGED <<users, issued, now, clockMoves>>

\* main.py 208-212: the assignments to the loaded row and the commit.
EnableMfaCommit(w) ==
    LET request == inflight[w].request
    IN  /\ inflight[w].op = "enable_mfa"
        /\ req' = request
        /\ users' = commit_update(users, inflight[w].user, request.secret, TRUE)
        /\ resp' = RedirectResponse("/dashboard?mfa_enabled=true")
        /\ Finish(w)
        /\ UNCHANGED <<issued, now, clockMoves>>

\* main.py 241-261.
DisableMfaRead(w, cookie, code) ==
    LET request == Request("disable_mfa", "", "", "", cookie, NoToken, Null, code)
        r == disable_mfa_response(users, cookie, code)
    IN  /\ inflight[w] = Idle
        /\ IF r.detail = "/dashboard?mfa_disabled=true"
           THEN /\ Begin(w, "disable_mfa", request, current_user(users, cookie))
                /\ UNCHANGED <<req, resp>>
           ELSE /\ req' = request
                /\ resp' = r
                /\ UNCHANGED inflight
        /\ UNCHANGED <<users, issued, now, clockMoves>>

\* main.py 264-268.
DisableMfaCommit(w) ==
    LET request == inflight[w].request
    IN  /\ inflight[w].op = "disable_mfa"
        /\ req' = request
        /\ users' = commit_update(users, inflight[w].user, Null, FALSE)
        /\ resp' = RedirectResponse("/dashboard?mfa_disabled=true")
        /\ Finish(w)
        /\ UNCHANGED <<issued, now, clockMoves>>

\* Two workers serving requests about one account.
NextConc ==
    \/ \E w \in Workers, e \in ClockEmails, f \in SignupForms :
          SignupRead(w, e, f[1], f[2])
    \/ \E w \in Workers : SignupCommit(w)
    \/ \E e \in ClockEmails, p \in Passwords : Login(e, p)
    \/ \E w \in Workers, t \in Presentable, s \in Secrets, c \in Codes :
          EnableMfaRead(w, t, s, c)
    \/ \E w \in Workers : EnableMfaCommit(w)
    \/ \E w \in Workers, t \in Presentable, c \in Codes : DisableMfaRead(w, t, c)
    \/ \E w \in Workers : DisableMfaCommit(w)

SpecConc == Init /\ [][NextConc]_vars

(***************************************************************************)
(* create_access_token and verify_token called directly, with every kind   *)
(* of expires_delta, while the clock moves.                                *)
(***************************************************************************)
\* None, a zero timedelta, one step, and ACCESS_TOKEN_EXPIRE_MINUTES.
Deltas == {NoDelta, 0, 1, Minutes(ACCESS_TOKEN_EXPIRE_MINUTES)}

CreateAccessToken(sub, expires_delta) ==
    LET token == create_access_token(<<sub, FALSE>>, expires_delta)
    IN  /\ CanIssue(token)
        /\ issued' = issued \cup {token}
        /\ req' = [Request("create_access_token", sub, "", "", NoToken, NoToken,
                           Null, BadCode) EXCEPT !.expires_delta = expires_delta]
        /\ resp' = [NoResponse EXCEPT !.token = token]
        /\ UNCHANGED <<users, now, clockMoves, inflight>>

VerifyToken(token) ==
    /\ req' = Request("verify_token", "", "", "", NoToken, token, Null, BadCode)
    /\ resp' = [NoResponse EXCEPT !.user = verify_token(token)]
    /\ UNCHANGED <<users, issued, now, clockMoves, inflight>>

NextToken ==
    \/ \E e \in Emails, d \in Deltas : CreateAccessToken(e, d)
    \/ \E t \in issued \cup {Forged} : VerifyToken(t)
    \/ \E d \in ClockSteps : Advance(d)

SpecToken == Init /\ [][NextToken]_vars

(***************************************************************************)
(* Properties.                                                             *)
(***************************************************************************)
CookieOps == {"dashboard", "setup_mfa_page", "enable_mfa", "disable_mfa_page",
              "disable_mfa"}
Registered(email) == Matching(users, email) # {}
WrongPassword(email, password) ==
    /\ Registered(email)
    /\ FindByEmail(users, email).hashed_password # get_password_hash(password)
OneRecordPerEmail == \A e \in Emails : Cardinality(Matching(users, e)) <= 1

\* C1: a pending token (temp=True) presented as the access_token cookie is
\* treated as no authentication by dashboard, setup-mfa, enable-mfa and
\* disable-mfa (GET and POST): each redirects to /login.
C1_PendingTokenNeverAuthenticates ==
    (req.op \in CookieOps /\ req.cookie \in issued /\ req.cookie.temp)
        => resp = to_login

\* C2: mfa_verify answers "Invalid token" to every token that is not a pending
\* token, a full-session token included, whatever the user's MFA state.
C2_MfaVerifyNeedsPendingToken ==
    (req.op = "mfa_verify" /\ ~req.token.temp)
        => resp = HTTPException(401, "Invalid token")

\* C3: a login with correct credentials for an MFA-enabled user issues only a
\* pending token and sets no cookie; for an MFA-disabled user it sets a
\* full-session cookie; mfa_verify sets a full-session cookie only for a user
\* with MFA enabled and a code that verifies against the stored secret.
C3_FullSessionOnlyAfterMfa ==
    /\ (req.op = "login" /\ resp # login_failed) =>
          LET user == FindByEmail(users, req.email)
          IN  /\ user # NoUser
              /\ verify_password(req.password, user.hashed_password)
              /\ IF user.mfa_enabled
                 THEN /\ resp.set_cookie = NoToken
                      /\ resp.token.temp
                      /\ resp.token.sub = req.email
                 ELSE /\ resp.token = NoToken
                      /\ ~resp.set_cookie.temp
                      /\ resp.set_cookie.sub = req.email
                      /\ resp.set_cookie.key = SECRET_KEY
    /\ (req.op = "mfa_verify" /\ resp.set_cookie # NoToken) =>
          LET user == FindByEmail(users, req.token.sub)
          IN  /\ user # NoUser
              /\ user.mfa_enabled
              /\ req.code = TotpAt(user.mfa_secret, req.at)
              /\ ~resp.set_cookie.temp
              /\ resp.set_cookie.sub = user.email

\* C3 witness: a pending token from login was exchanged by mfa_verify.
C3_Witness ==
    /\ req.op = "mfa_verify"
    /\ req.token.temp
    /\ resp.set_cookie # NoToken

\* C4: every user record has mfa_enabled true with a secret present and
\* non-empty, or mfa_enabled false with the secret NULL.
C4_SecretIffEnabled ==
    \A u \in users :
        /\ u.mfa_enabled => u.mfa_secret \in Secrets
        /\ ~u.mfa_enabled => u.mfa_secret = Null

\* C5: the table holds at most one record per email; a signup for a taken
\* email answers 400 "Email already registered" and leaves the table as it
\* was; a signup for a fresh email adds one record with the submitted name and
\* password, mfa_enabled false and mfa_secret NULL.
C5_SignupStep ==
    req'.op = "signup" =>
        IF Registered(req'.email)
        THEN /\ resp' = signup_taken
             /\ users' = users
        ELSE /\ resp' = signup_done
             /\ \E u \in users' :
                   /\ users' = users \cup {u}
                   /\ u \notin users
                   /\ u.email = req'.email
                   /\ u.name = req'.name
                   /\ verify_password(req'.password, u.hashed_password)
                   /\ u.mfa_enabled = FALSE
                   /\ u.mfa_secret = Null

C5_SignupUnique == [](OneRecordPerEmail) /\ [][C5_SignupStep]_vars

\* C5 witness: a second signup for a taken email, under another name, was
\* refused and the record kept its name.
C5_Witness ==
    /\ req.op = "signup"
    /\ resp = signup_taken
    /\ FindByEmail(users, req.email).name # req.name
    /\ \E e \in Emails : ~Registered(e)

\* C6: when two signups for one email interleave, one creates the record and
\* the other is answered 400 "Email already registered": no duplicate record
\* and no other failure.
C6_SignupRaceIsEmailTaken ==
    /\ OneRecordPerEmail
    /\ req.op = "signup" => resp \in {signup_done, signup_taken}

\* C7: a failed login has one outcome, 401 "Incorrect email or password" with
\* no token and no cookie, whether the email is unknown or the password is
\* wrong, and it changes neither the table nor the set of issued tokens.
C7_FailureOutcome ==
    /\ (req.op = "login" /\ (~Registered(req.email) \/ WrongPassword(req.email, req.password)))
          => (resp = login_failed /\ TokensOf(resp) = {})
    /\ \A e1 \in Emails, e2 \in Emails, p1 \in Passwords, p2 \in Passwords :
          (~Registered(e1) /\ WrongPassword(e2, p2))
             => login_response(users, e1, p1) = login_response(users, e2, p2)

C7_LoginStep ==
    (req'.op = "login" /\ resp' = login_failed) => (users' = users /\ issued' = issued)

C7_LoginFailureUniform == [](C7_FailureOutcome) /\ [][C7_LoginStep]_vars

\* C7 witness: a login with a wrong password for a registered email failed
\* while another email is not registered.
C7_Witness ==
    /\ req.op = "login"
    /\ resp = login_failed
    /\ WrongPassword(req.email, req.password)
    /\ \E e \in Emails : ~Registered(e)

\* C8: a full-session token set by login or mfa_verify expires 30 minutes
\* after it is issued, a pending token 15 minutes after.
C8_SessionLifetime ==
    (req.op \in {"login", "mfa_verify"}) =>
        /\ resp.set_cookie # NoToken =>
              resp.set_cookie.exp = req.at + Minutes(ACCESS_TOKEN_EXPIRE_MINUTES)
        /\ resp.token # NoToken =>
              resp.token.exp = req.at + Minutes(DefaultExpireMinutes)

\* C9: a token created with expires_delta of zero expires at its issue time
\* and verify_token refuses it at every time from then on.
C9_ZeroTtlNeverAccepted ==
    (req.op = "create_access_token" /\ req.expires_delta = 0) =>
        /\ resp.token.exp = req.at
        /\ verify_token(resp.token) = ""

\* C10: verify_token accepts an issued token only while now < exp, and a
\* cookie presented at or after its exp is refused by the handler.
C10_RejectedFromExpiry ==
    /\ \A t \in issued : verify_token(t) # "" => now < t.exp
    /\ (req.op = "dashboard" /\ req.cookie \in issued /\ req.at >= req.cookie.exp)
          => resp = to_login

(***************************************************************************)
(* MFA enrollment and removal.                                             *)
(***************************************************************************)
\* A full-session token the server issued, presented before its expiry.
FullSession(cookie, at) ==
    /\ cookie \in issued
    /\ ~cookie.temp
    /\ at < cookie.exp

EnableDone == RedirectResponse("/dashboard?mfa_enabled=true")
DisableDone == RedirectResponse("/dashboard?mfa_disabled=true")
InvalidCode == HTTPException(401, "Invalid MFA code")

\* The table with the record of one email given new MFA fields.
WithMfa(table, email, mfa_secret, mfa_enabled) ==
    {IF u.email = email
     THEN [u EXCEPT !.mfa_secret = mfa_secret, !.mfa_enabled = mfa_enabled]
     ELSE u : u \in table}

\* C11 (outcome): GET /setup-mfa with a valid full-session token answers an
\* MFA-enabled user with the already-set-up page and no secret, and any other
\* user with a generated secret that is shown only: the user's record still has
\* mfa_enabled = false and mfa_secret = null.
C11_Outcome ==
    (req.op = "setup_mfa_page" /\ FullSession(req.cookie, req.at)) =>
        LET user == FindByEmail(users, req.cookie.sub)
        IN  IF user.mfa_enabled
            THEN resp = TemplateResponse("mfa_already_setup.html", user.email)
            ELSE /\ resp.status = 200
                 /\ resp.detail = "setup_mfa.html"
                 /\ resp.secret \in Secrets
                 /\ user.mfa_secret = Null
                 /\ ~user.mfa_enabled

\* C11 (frame): no GET /setup-mfa request changes the users table.
C11_Step == (req'.op = "setup_mfa_page") => (users' = users)

\* C11: beginning MFA enrollment with a valid full-session token never changes
\* the user store; the generated secret is returned to the caller only, and an
\* MFA-enabled user gets AlreadyEnabled and no secret.
C11_SetupLeavesNoTrace == []C11_Outcome /\ [][C11_Step]_vars

\* A secret has just been generated for a user whose record holds none.
C11_Witness ==
    /\ req.op = "setup_mfa_page"
    /\ FullSession(req.cookie, req.at)
    /\ resp.secret \in Secrets
    /\ FindByEmail(users, req.cookie.sub).mfa_secret = Null
    /\ ~FindByEmail(users, req.cookie.sub).mfa_enabled

\* C12 (step): what POST /enable-mfa with a valid full-session token does.
C12_Step ==
    (req'.op = "enable_mfa" /\ FullSession(req'.cookie, now)) =>
        IF req'.code = TotpAt(req'.secret, now)
        THEN /\ resp' = EnableDone
             /\ users' = WithMfa(users, req'.cookie.sub, req'.secret, TRUE)
        ELSE /\ resp' = InvalidCode
             /\ users' = users

\* C12: enable_mfa with a valid full token fails with InvalidCode and leaves
\* the record unchanged when the code does not verify against the submitted
\* secret; when it verifies, the record ends with mfa_enabled = true and
\* mfa_secret = the submitted secret, set in one commit.
C12_EnableMfa == [][C12_Step]_vars

\* An enrollment has just been confirmed and the record holds its secret.
C12_Witness ==
    /\ req.op = "enable_mfa"
    /\ FullSession(req.cookie, req.at)
    /\ resp = EnableDone
    /\ FindByEmail(users, req.cookie.sub).mfa_secret = req.secret
    /\ FindByEmail(users, req.cookie.sub).mfa_enabled

\* C13 (step): what POST /disable-mfa with a valid full-session token does.
C13_Step ==
    (req'.op = "disable_mfa" /\ FullSession(req'.cookie, now)) =>
        LET user == FindByEmail(users, req'.cookie.sub)
        IN  IF ~user.mfa_enabled
            THEN /\ resp' = RedirectResponse("/dashboard")
                 /\ users' = users
            ELSE IF req'.code = TotpAt(user.mfa_secret, now)
            THEN /\ resp' = DisableDone
                 /\ users' = WithMfa(users, req'.cookie.sub, Null, FALSE)
            ELSE /\ resp' = InvalidCode
                 /\ users' = users

\* C13: disable_mfa with a valid full token is refused without a change when
\* MFA is not enabled, fails with InvalidCode without a change when the code
\* does not verify against the stored secret, and otherwise leaves the record
\* with mfa_enabled = false and mfa_secret cleared, in one commit.
C13_DisableMfa == [][C13_Step]_vars

\* MFA has just been switched off and the record's secret is cleared.
C13_Witness ==
    /\ req.op = "disable_mfa"
    /\ FullSession(req.cookie, req.at)
    /\ resp = DisableDone
    /\ FindByEmail(users, req.cookie.sub).mfa_secret = Null
    /\ ~FindByEmail(users, req.cookie.sub).mfa_enabled

(***************************************************************************)
(* TOTP codes and time.                                                    *)
(***************************************************************************)
\* The last request was POST /enable-mfa with a valid full-session token.
EnableAsked == req.op = "enable_mfa" /\ FullSession(req.cookie, req.at)

\* C14 as stated: verify_mfa_code accepts the code of the current step and the
\* codes of the adjacent steps, so an enrollment confirmed with the code of
\* the immediately preceding step succeeds.
C14_PrecedingStepAccepted ==
    (/\ EnableAsked
     /\ req.at >= 1
     /\ req.code \in {TotpAt(req.secret, req.at), TotpAt(req.secret, req.at - 1)})
        => resp = EnableDone

\* C14: verify_mfa_code accepts the code of the current 30-second step and no
\* other: an enrollment is confirmed exactly when the submitted code is the
\* submitted secret's code of the step the request is made in, and a code of
\* the immediately preceding step is answered with InvalidCode.
C14_OnlyCurrentStepAccepted ==
    EnableAsked =>
        /\ (resp = EnableDone) <=> (req.code = TotpAt(req.secret, req.at))
        /\ (resp = InvalidCode) <=> (req.code # TotpAt(req.secret, req.at))

\* The code of the preceding step has just been refused.
C14_Witness ==
    /\ EnableAsked
    /\ req.at >= 1
    /\ req.code = TotpAt(req.secret, req.at - 1)
    /\ resp = InvalidCode

\* The requests that submit a TOTP code.
CodeOps == {"mfa_verify", "enable_mfa", "disable_mfa"}

\* The step a submitted code was generated for.
StepOf(code) == code[2]

\* C15 (outcome): the code of the current step confirms an enrollment, and a
\* code of a step more than one step back completes none of the three code
\* requests: no cookie is set and neither success redirect is returned.
C15_Outcome ==
    /\ (EnableAsked /\ req.code = TotpAt(req.secret, req.at)) => resp = EnableDone
    /\ (req.op \in CodeOps /\ StepOf(req.code) + 1 < req.at) =>
            /\ TokensOf(resp) = {}
            /\ resp \notin {EnableDone, DisableDone}

\* C15 (frame): a code request carrying such a code leaves the table alone.
C15_Step ==
    (req'.op \in CodeOps /\ StepOf(req'.code) + 1 < now) => users' = users

\* C15: verify_mfa_code is true for the code of the current step, and a code
\* is rejected once time has moved past the skew window of its step, so a code
\* captured earlier completes neither mfa_verify, enable_mfa nor disable_mfa.
C15_StaleCodeRejected == []C15_Outcome /\ [][C15_Step]_vars

\* The stored secret's code of two steps ago has just been refused.
C15_Witness ==
    /\ req.op = "disable_mfa"
    /\ FullSession(req.cookie, req.at)
    /\ req.at >= 2
    /\ FindByEmail(users, req.cookie.sub).mfa_enabled
    /\ req.code = TotpAt(FindByEmail(users, req.cookie.sub).mfa_secret, req.at - 2)
    /\ resp = InvalidCode

(***************************************************************************)
(* Interleaved MFA writes.                                                 *)
(***************************************************************************)
\* The table a request leaves when its handler runs alone, start to end.
SerialTable(table, request) ==
    IF /\ request.op = "enable_mfa"
       /\ enable_mfa_response(table, request.cookie, request.secret,
                              request.code) = EnableDone
    THEN WithMfa(table, request.cookie.sub, request.secret, TRUE)
    ELSE IF /\ request.op = "disable_mfa"
            /\ disable_mfa_response(table, request.cookie, request.code) = DisableDone
    THEN WithMfa(table, request.cookie.sub, Null, FALSE)
    ELSE table

\* A worker's enable_mfa or disable_mfa writes and returns in this step.
Commits(w) ==
    /\ inflight[w].op \in {"enable_mfa", "disable_mfa"}
    /\ inflight'[w] = Idle

\* The table as a worker saw it when it loaded its row.
Snapshot(w) ==
    {IF u.id = inflight[w].user.id THEN inflight[w].user ELSE u : u \in users}

\* Since worker w loaded its row, the request answered last has written: the
\* table is what that request, run alone, makes of the table w saw.
Overtaken(w) ==
    /\ req.op \in {"enable_mfa", "disable_mfa"}
    /\ resp \in {EnableDone, DisableDone}
    /\ users # Snapshot(w)
    /\ users = SerialTable(Snapshot(w), req)

\* The tables the two serial orders of w's request and the last one leave.
SerialOutcomes(w) ==
    {SerialTable(users, inflight[w].request),
     SerialTable(SerialTable(Snapshot(w), inflight[w].request), req)}

C16_Step ==
    \A w \in Workers :
        (Commits(w) /\ Overtaken(w)) => users' \in SerialOutcomes(w)

\* C16: when two requests that change the same user's MFA fields interleave,
\* each reading the record before the other commits, the table they leave is
\* the one a serial order of the two leaves: no update is lost and no record
\* mixes fields of both writes.
C16_InterleavingIsSerial == [][C16_Step]_vars

(***************************************************************************)
(* The pending token of a user whose MFA has been switched off since.      *)
(***************************************************************************)
MfaNotEnabled == HTTPException(400, "MFA not enabled for this user")

\* POST /mfa-verify presents a pending token the server issued, and the user
\* it names has MFA disabled by now.
PendingForDisabled(request, table) ==
    /\ request.op = "mfa_verify"
    /\ request.token \in issued
    /\ request.token.temp
    /\ request.at <= request.token.exp
    /\ ~FindByEmail(table, request.token.sub).mfa_enabled

C17_Step ==
    PendingForDisabled(req', users) =>
        /\ resp' = MfaNotEnabled
        /\ TokensOf(resp') = {}
        /\ issued' = issued
        /\ users' = users

\* C17: when a user's MFA is disabled after login issued a pending token and
\* before mfa_verify is called with it, mfa_verify fails with MfaNotEnabled,
\* issues no token, sets no cookie and leaves the store unchanged, whatever
\* code is submitted.
C17_PendingAfterDisable == [][C17_Step]_vars

\* The current code of some secret was submitted with such a token, in vain.
C17_Witness ==
    /\ PendingForDisabled(req, users)
    /\ req.code # BadCode
    /\ resp = MfaNotEnabled

(***************************************************************************)
(* What changes the users table.                                           *)
(***************************************************************************)
ReadOnlyOps == {"login", "mfa_verify", "dashboard", "setup_mfa_page",
                "disable_mfa_page", "logout"}

\* The same record, apart from its two MFA fields.
SameIdentity(u, v) ==
    /\ v.id = u.id
    /\ v.email = u.email
    /\ v.name = u.name
    /\ v.hashed_password = u.hashed_password
    /\ v.created_at = u.created_at

MfaWritten ==
    \/ req'.op = "enable_mfa" /\ resp' = EnableDone
    \/ req'.op = "disable_mfa" /\ resp' = DisableDone

C18_Step ==
    /\ \A u \in users : \E v \in users' : SameIdentity(u, v)
    /\ Cardinality(users') = Cardinality(users) \/
          (req'.op = "signup" /\ resp' = signup_done)
    /\ \A u \in users : u \notin users' =>
          (MfaWritten /\ u.email = req'.cookie.sub)
    /\ req'.op \in ReadOnlyOps => users' = users
    /\ (req'.op \in CookieOps /\ (req'.cookie \notin issued \/ req'.cookie.exp < now))
          => users' = users

\* C18: records are created only by signup and never deleted; only a
\* successful enable_mfa or disable_mfa changes an existing record, and only
\* the mfa_secret and mfa_enabled of the user its token names; login,
\* mfa_verify, dashboard, the setup-mfa and disable-mfa pages, logout and every
\* request with a missing or invalid token leave the table as it was; id,
\* email, name, hashed_password and created_at never change.
C18_StoreFrame == [][C18_Step]_vars

\* One user's MFA has just been enabled next to a user whose record is as
\* signup left it.
C18_Witness ==
    /\ req.op = "enable_mfa"
    /\ resp = EnableDone
    /\ \E u \in users : u.email = req.cookie.sub /\ u.mfa_enabled
    /\ \E u \in users : u.email # req.cookie.sub /\ ~u.mfa_enabled
                           /\ u.mfa_secret = Null

(***************************************************************************)
(* Replacing the secret of an enrolled user.                               *)
(***************************************************************************)
C19_Step ==
    \A u \in users :
        (u.mfa_enabled /\ \E v \in users' : v.id = u.id /\ v.mfa_secret # u.mfa_secret)
            => req'.code = TotpAt(u.mfa_secret, now)

\* C19: once a record has mfa_enabled = true with stored secret S, no request
\* changes or clears the stored secret unless it presents a code that verifies
\* against S; enable_mfa for an enrolled user with a new secret S2 and a code
\* of S2 does not replace S.
C19_SecretNeedsOldCode == [][C19_Step]_vars

(***************************************************************************)
(* Logout and the life of a token.                                         *)
(***************************************************************************)
\* The requests that need the session cookie to do their work.
SessionOps == {"dashboard", "enable_mfa", "disable_mfa"}

\* C20 (acceptance): every token the server issued is accepted by
\* verify_token, and so by the dashboard, at every time before its expiry, and
\* a request that presented one before its expiry was not sent to /login.
C20_Accepted ==
    /\ \A t \in issued : now < t.exp =>
          /\ verify_token(t) = t.sub
          /\ Registered(t.sub)
          /\ dashboard_response(users, t) = TemplateResponse("dashboard.html", t.sub)
    /\ (req.op \in SessionOps /\ req.cookie \in issued /\ req.at < req.cookie.exp)
          => resp # to_login

\* C20 (frame): logout deletes the client's cookie and changes nothing else.
C20_Step ==
    (req'.op = "logout") =>
        /\ resp' = logout_response
        /\ users' = users
        /\ issued' = issued

\* C20: logout changes no server-side state and revokes nothing: a token
\* issued before logout is still accepted by verify_token, and hence by
\* dashboard, enable_mfa and disable_mfa, at every time before its expiry; as
\* no record is ever deleted, an unexpired, correctly signed token is never
\* refused.
C20_LogoutRevokesNothing == []C20_Accepted /\ [][C20_Step]_vars

\* Time has passed since a logout, and a full-session token issued before it
\* still opens the dashboard.
C20_Witness ==
    /\ req.op = "logout"
    /\ req.at < now
    /\ \E t \in issued :
          /\ ~t.temp
          /\ now < t.exp
          /\ dashboard_response(users, t).status = 200

====
